---- MODULE Spec2Model ----
(***************************************************************************)
(* Model of src/Linux/klipper_support.py: a linear script that locates the *)
(* klipper service definition, parses the environment file, stages logs,   *)
(* configuration and system reports in a scratch directory, zips the       *)
(* scratch directory and copies the archive to its final destination.      *)
(*                                                                         *)
(* Strings are modelled as sequences of tokens.  A token is an atomic      *)
(* piece of text ("/", "x", "printer_data", ".log.", a single digit, ...). *)
(* The token alphabet is chosen so that no token other than "printer_data" *)
(* contains, or can combine with a neighbour to form, the text             *)
(* "printer_data"; the substring test and the split of the code are then   *)
(* exactly the token test and the token split below.  Dates and            *)
(* timestamps are kept at character level (one token per digit).           *)
(***************************************************************************)
EXTENDS Integers, Sequences, FiniteSets, TLC

VARIABLES
    pc,                     \* position of the current run in main()
    run,                    \* number of the current run (0: none started)
    clock,                  \* wall clock, seconds since 2024-01-01 00:00:00
    serviceFile,            \* /etc/systemd/system/klipper.service as the run finds it
    envFile,                \* the environment file as the run finds it
    logDir,                 \* os.listdir of the log directory as the run finds it
    environment_file_path,  \* locals of main()
    printer_cfg_path,
    log_file_path,
    base_path,
    base_path_log,
    newest_log,
    walk,                   \* files os.walk has still to hand to the zip loop
    scratch,                \* files under /tmp/klipper_support: [name, run]
    zips,                   \* archives on disk: path -> [by, entries]
    zips0,                  \* the archives on disk when the current run started
    out,                    \* failure / final messages printed by the current run
    ran,                    \* steps the current run has executed
    returncodes             \* outcomes of the external commands of the current run

host   == <<serviceFile, envFile, logDir>>
locals == <<environment_file_path, printer_cfg_path, log_file_path,
            base_path, base_path_log, newest_log>>
disk   == <<scratch, zips>>
vars   == <<pc, run, clock, host, locals, walk, disk, zips0, out, ran, returncodes>>

----------------------------------------------------------------------------
(* Bounds of the model *)

MaxRuns == 2        \* runs of the script, one after the other
MaxTicks == 2       \* seconds the clock may advance over all the runs
MaxPackTicks == 2   \* seconds the clock may advance while one run packs
MaxListing == 3     \* files in the log directory
MaxPathLen == 4     \* tokens of a path handed to the base-path derivation

\* 23:59:59 on the first day: the next tick crosses a day boundary
StartClock == 86399

----------------------------------------------------------------------------
(* Text helpers *)

None == <<>>

Contains(s, tok) == \E i \in 1..Len(s) : s[i] = tok

IndexOf(s, tok) == CHOOSE i \in 1..Len(s) : s[i] = tok /\ \A j \in 1..(i-1) : s[j] # tok

\* str.split(sep): the pieces between the occurrences of sep
RECURSIVE Split(_, _)
Split(s, tok) ==
    IF ~Contains(s, tok) THEN <<s>>
    ELSE LET i == IndexOf(s, tok)
         IN <<SubSeq(s, 1, i-1)>> \o Split(SubSeq(s, i+1, Len(s)), tok)

\* str.strip(chars) for a set of one-token characters
RECURSIVE LStrip(_, _)
LStrip(s, chars) ==
    IF s # <<>> /\ Head(s) \in chars THEN LStrip(Tail(s), chars) ELSE s

RECURSIVE RStrip(_, _)
RStrip(s, chars) ==
    IF s # <<>> /\ s[Len(s)] \in chars THEN RStrip(SubSeq(s, 1, Len(s)-1), chars) ELSE s

Strip(s, chars) == RStrip(LStrip(s, chars), chars)

Whitespace == {" "}

\* str.split(): split on runs of whitespace, no empty pieces
SplitWords(s) == SelectSeq(Split(s, " "), LAMBDA w : w # <<>>)

DigitChars == <<"0", "1", "2", "3", "4", "5", "6", "7", "8", "9">>

IsDigit(ch) == \E i \in 1..10 : DigitChars[i] = ch

DigitVal(ch) == (CHOOSE i \in 1..10 : DigitChars[i] = ch) - 1

RECURSIVE Pow10(_)
Pow10(n) == IF n = 0 THEN 1 ELSE 10 * Pow10(n-1)

\* a number printed with leading zeros, one token per digit (%02d, %04d)
Digits(n, width) == [i \in 1..width |-> DigitChars[((n \div Pow10(width - i)) % 10) + 1]]

RECURSIVE ToInt(_)
ToInt(s) == IF s = <<>> THEN 0 ELSE 10 * ToInt(SubSeq(s, 1, Len(s)-1)) + DigitVal(s[Len(s)])

AllDigits(s) == \A i \in 1..Len(s) : IsDigit(s[i])

\* os.path.dirname
LastSlash(p) == CHOOSE i \in 1..Len(p) : p[i] = "/" /\ \A j \in (i+1)..Len(p) : p[j] # "/"

dirname(p) ==
    IF ~Contains(p, "/") THEN <<>>
    ELSE LET i == LastSlash(p)
         IN IF \A j \in 1..i : p[j] = "/" THEN SubSeq(p, 1, i) ELSE SubSeq(p, 1, i-1)

----------------------------------------------------------------------------
(* Fixed paths of the script *)

Marker == "printer_data"

klipper_service_path == <<"/", "etc", "/", "systemd", "/", "system", "/", "klipper.service">>
support_dir == <<"/", "tmp", "/", "klipper_support">>
zip_path == <<"/", "tmp", "/", "klipper_support.zip">>

EnvPath == <<"/", "x", "/", "klipper.env">>

----------------------------------------------------------------------------
(* Pure functions of the script *)

\* a derivation that takes the directory of a path outside the managed root
derive_dirname(p) ==
    IF Contains(p, Marker)
    THEN Split(p, Marker)[1] \o <<Marker, "/">>
    ELSE dirname(p)

\* steps 5 and 6 of main(): the base path of a config or log path
derive(p) ==
    IF Contains(p, Marker)
    THEN Split(p, Marker)[1] \o <<Marker, "/">>
    ELSE p

\* time.strftime("%Y%m%d_%H%M%S") of the clock (the model stays inside January 2024)
strftime(c) ==
    LET day  == (c \div 86400) + 1
        secs == c % 86400
    IN Digits(2024, 4) \o Digits(1, 2) \o Digits(day, 2) \o <<"_">>
       \o Digits(secs \div 3600, 2) \o Digits((secs % 3600) \div 60, 2) \o Digits(secs % 60, 2)

\* os.path.basename
basename(p) == IF ~Contains(p, "/") THEN p ELSE SubSeq(p, LastSlash(p) + 1, Len(p))

\* an entry name built from the file's name instead of its relative path
basename_with_timestamp(arcname, c) == basename(arcname) \o <<"_">> \o strftime(c)

\* the entry name the zip loop gives a file: f"{arcname}_{timestamp}"
arcname_with_timestamp(arcname, c) == arcname \o <<"_">> \o strftime(c)

\* a destination that is the temporary directory whatever the base path
final_path_tmp(base, c) == <<"/", "tmp", "/", "klipper_support_">> \o strftime(c) \o <<".zip">>

\* the destination of the final copy
final_path(base, c) ==
    IF Contains(base, Marker)
    THEN base \o <<"logs", "/", "klipper_support_">> \o strftime(c) \o <<".zip">>
    ELSE <<"/", "tmp", "/", "klipper_support_">> \o strftime(c) \o <<".zip">>

\* f.startswith(log_prefix) for the prefix "klippy.log"
StartsWithKlippyLog(f) == Len(f) >= 2 /\ f[1] = "klippy" /\ f[2] \in {".log", ".log."}

\* shape \d{4}-\d{2}-\d{2}
IsDateText(s) ==
    /\ Len(s) = 10
    /\ s[5] = "-" /\ s[8] = "-"
    /\ \A i \in {1, 2, 3, 4, 6, 7, 9, 10} : IsDigit(s[i])

\* re.match(r'^.*\.log\.\d{4}-\d{2}-\d{2}$', f)
MatchesRotation(f) ==
    /\ Len(f) >= 11
    /\ f[Len(f) - 10] = ".log."
    /\ IsDateText(SubSeq(f, Len(f) - 9, Len(f)))

IsLeap(y) == (y % 4 = 0 /\ y % 100 # 0) \/ y % 400 = 0

DaysInMonth(y, m) ==
    IF m = 2 THEN (IF IsLeap(y) THEN 29 ELSE 28)
    ELSE IF m \in {4, 6, 9, 11} THEN 30 ELSE 31

\* datetime.strptime(s, "%Y-%m-%d"): the fields, and whether it raises
DateFields(s) == Split(s, "-")

StrptimeOk(s) ==
    LET p == DateFields(s)
    IN /\ Len(p) = 3
       /\ \A i \in 1..3 : p[i] # <<>> /\ AllDigits(p[i])
       /\ Len(p[1]) = 4 /\ Len(p[2]) <= 2 /\ Len(p[3]) <= 2
       /\ ToInt(p[1]) >= 1
       /\ ToInt(p[2]) \in 1..12
       /\ ToInt(p[3]) \in 1..DaysInMonth(ToInt(p[1]), ToInt(p[2]))

\* the datetime as a number that orders as datetimes do
Strptime(s) ==
    LET p == DateFields(s)
    IN ToInt(p[1]) * 10000 + ToInt(p[2]) * 100 + ToInt(p[3])

\* the sort key of get_newest_log: f.split('.log.')[1]
SortKeyText(f) == Split(f, ".log.")[2]

\* get_newest_log(log_dir, "klippy.log"): the values it can return for a
\* listing.  The sort is stable and os.listdir's order is unspecified, so
\* among files with the same newest key any one can come first.
get_newest_log(all_files) ==
    LET log_files == {f \in all_files : StartsWithKlippyLog(f) /\ MatchesRotation(f)}
    IN IF log_files = {} THEN {None}
       ELSE IF \E f \in log_files : ~StrptimeOk(SortKeyText(f)) THEN {None}
       ELSE {f \in log_files :
                \A g \in log_files : Strptime(SortKeyText(g)) <= Strptime(SortKeyText(f))}

\* a directory that is created when missing but never emptied
ensure_dir(content) == content

\* ensure_empty_dir: the content of the directory afterwards
ensure_empty_dir(content) == {}

\* a copy loop that stops at the first file that is not there
files_to_copy_until_missing(listing) ==
    IF <<"klippy", ".log">> \in listing
    THEN {<<"klippy", ".log">>, <<"moonraker", ".log">>} \cap listing
    ELSE {}

\* the loop over files_to_copy: the files it copies from a directory listing
files_to_copy(listing) == {<<"klippy", ".log">>, <<"moonraker", ".log">>} \cap listing

----------------------------------------------------------------------------
(* What the host can hold *)

DateText(y, m, d) == Digits(y, 4) \o <<"-">> \o Digits(m, 2) \o <<"-">> \o Digits(d, 2)

KlippyLog == <<"klippy", ".log">>
MoonrakerLog == <<"moonraker", ".log">>
Rotated(stem, y, m, d) == <<stem, ".log.">> \o DateText(y, m, d)

Absent == "absent"
Present == "present"
Unread == "unread"

Dir(files) == [st |-> Present, files |-> files]
NoDir == [st |-> Absent, files |-> {}]
File(lines) == [st |-> Present, lines |-> lines]
NoFile == [st |-> Absent, lines |-> <<>>]

\* names a log directory may hold
LogNames ==
    { KlippyLog, MoonrakerLog,
      Rotated("klippy", 2024, 1, 1), Rotated("klippy", 2024, 3, 15),
      Rotated("klippy", 2023, 12, 31), Rotated("klippy", 2024, 2, 30),
      Rotated("moonraker", 2024, 5, 1),
      <<"klippy", ".log.", "o", "l", "d", ".log.">> \o DateText(2024, 6, 1),
      Rotated("klippy", 2024, 1, 1) \o <<".log.">> \o DateText(2023, 6, 1) }

\* every log directory of at most MaxListing of these files
AllLogDirs ==
    {NoDir} \cup {Dir(s) : s \in {t \in SUBSET LogNames : Cardinality(t) <= MaxListing}}

\* the log directories of the hosts the whole pipeline is run on
LogDirs ==
    { NoDir, Dir({}), Dir({MoonrakerLog}),
      Dir({KlippyLog, MoonrakerLog, Rotated("klippy", 2024, 3, 15), Rotated("klippy", 2024, 1, 1)}) }

CfgUnderRoot == <<"/", "x", "/", "printer_data", "/", "config", "/", "printer.cfg">>
CfgElsewhere == <<"/", "x", "/", "printer.cfg">>
LogUnderRoot == <<"/", "x", "/", "printer_data", "/", "logs", "/", "klippy", ".log">>
LogElsewhere == <<"/", "x", "/", "klippy", ".log">>

CfgPaths == {CfgUnderRoot, CfgElsewhere}
LogPaths == {LogUnderRoot, LogElsewhere}

ServiceFiles ==
    { NoFile,
      File(<< <<"[Service]">> >>),
      File(<< <<"EnvironmentFile">> >>),
      File(<< <<"EnvironmentFile", "=">> \o EnvPath >>),
      File(<< <<"[Service]">>, <<"EnvironmentFile", " ", "=", " ">> \o EnvPath \o <<" ">> >>) }

EnvLine(cfg, log) ==
    <<"KLIPPER_ARGS", "=", "\"", "klippy.py", " ">> \o cfg
    \o <<" ", "-I", " ", "sock", " ", "-l", " ">> \o log \o <<"\"">>

\* the environment files of the hosts the whole pipeline is run on
EnvFiles ==
    { NoFile,
      File(<< <<"KLIPPER_ARGS">> >>),
      File(<< <<"KLIPPER_ARGS", "=", "\"", "klippy.py", " ">> \o CfgUnderRoot \o <<"\"">> >>) }
    \cup {File(<< EnvLine(c, l) >>) : c \in CfgPaths, l \in LogPaths}

\* every path of at most MaxPathLen tokens over "/", "x" and the marker
RECURSIVE PathsOfLen(_)
PathsOfLen(n) ==
    IF n = 0 THEN {<<>>}
    ELSE {Append(p, t) : p \in PathsOfLen(n - 1), t \in {"/", "x", Marker}}

DerivePaths == UNION {PathsOfLen(n) : n \in 1..MaxPathLen}

\* environment files naming any two of these paths
AllEnvFiles == {File(<< EnvLine(c, l) >>) : c \in DerivePaths, l \in DerivePaths}

PrinterCfg == <<"printer.cfg">>

\* the config directories of the hosts the whole pipeline is run on
CfgDirs == {NoDir, Dir({PrinterCfg})}

\* config directories that hold printer.cfg and whatever else lies beside it,
\* a file named as a log or as an archive entry would be among them

AllCfgDirs ==
    { NoDir, Dir({PrinterCfg}), Dir({PrinterCfg, KlippyLog}),
      Dir({PrinterCfg, arcname_with_timestamp(PrinterCfg, StartClock)}),
      Dir({PrinterCfg, arcname_with_timestamp(PrinterCfg, StartClock + 1)}),
      Dir({KlippyLog, arcname_with_timestamp(KlippyLog, StartClock),
           arcname_with_timestamp(arcname_with_timestamp(KlippyLog, StartClock), StartClock + 1)}) }

\* an external command exits 0, exits non-zero, or is not installed
AllOutcomes == {"ok", "nonzero", "missing"}

\* the outcomes on the hosts the whole pipeline is run on
Outcomes == {"ok", "missing"}

Commands == {"uname", "cat", "ip", "sudo"}

NotRun == [c \in Commands |-> "notrun"]

----------------------------------------------------------------------------
(* The run: main() *)

StepOrder ==
    <<"s1", "s2", "s3", "s4", "s5", "s6", "s7", "logs", "config",
      "osinfo", "netinfo", "dmesg", "compress", "zip", "final">>

StepIndex(st) == CHOOSE i \in 1..Len(StepOrder) : StepOrder[i] = st

LocatorSteps == {"s1", "s2", "s3", "s4", "s5", "s6"}
CollectorSteps == {"s7", "logs", "config", "osinfo", "netinfo", "dmesg"}

Staged(name) == [name |-> name, run |-> run]

Names(files) == {f.name : f \in files}

FailMsg(st, err, path) == [kind |-> "FAIL", at |-> st, err |-> err, path |-> path]
CreatedMsg(path) == [kind |-> "CREATED", at |-> "final", err |-> "", path |-> path]
NoteMsg(st, text) == [kind |-> "NOTE", at |-> st, err |-> text, path |-> <<>>]

\* an exception that is swallowed where it is raised: the run goes on
AfterRaiseContinue(st) ==
    IF StepIndex(st) < Len(StepOrder) THEN StepOrder[StepIndex(st) + 1] ELSE "done"

\* where control is after an exception raised inside the try block: the
\* handler of main() prints and the function returns
AfterRaise(st) == "done"

\* a handler that prints the kind of the error without its text
HandlerKindOnly(st, err, path) == <<FailMsg(st, err, <<>>)>>

\* what the handler prints: status_message(str(e), success=False)
Handler(st, err, path) == <<FailMsg(st, err, path)>>

\* an exception raised by step st
Raise(st, err, path) ==
    /\ pc' = AfterRaise(st)
    /\ out' = out \o Handler(st, err, path)
    /\ ran' = ran \cup {st}

Advance(st, next) ==
    /\ pc' = next
    /\ ran' = ran \cup {st}

Init ==
    /\ pc = "idle"
    /\ run = 0
    /\ clock = StartClock
    /\ serviceFile = [st |-> Unread, lines |-> <<>>]
    /\ envFile = [st |-> Unread, lines |-> <<>>]
    /\ logDir = [st |-> Unread, files |-> {}]
    /\ environment_file_path = None
    /\ printer_cfg_path = None
    /\ log_file_path = None
    /\ base_path = None
    /\ base_path_log = None
    /\ newest_log = None
    /\ walk = <<>>
    /\ scratch = {}
    /\ zips = <<>>
    /\ zips0 = <<>>
    /\ out = <<>>
    /\ ran = {}
    /\ returncodes = NotRun

\* the operator starts the script, for at most `runs` runs in all
Start(runs) ==
    /\ pc \in {"idle", "done"}
    /\ run < runs
    /\ run' = run + 1
    /\ pc' = "s1"
    /\ serviceFile' = [st |-> Unread, lines |-> <<>>]
    /\ envFile' = [st |-> Unread, lines |-> <<>>]
    /\ logDir' = [st |-> Unread, files |-> {}]
    /\ environment_file_path' = None
    /\ printer_cfg_path' = None
    /\ log_file_path' = None
    /\ base_path' = None
    /\ base_path_log' = None
    /\ newest_log' = None
    /\ walk' = <<>>
    /\ zips0' = zips
    /\ out' = <<>>
    /\ ran' = {}
    /\ returncodes' = NotRun
    /\ UNCHANGED <<clock, disk>>

StartRun == Start(MaxRuns)

StartOnce == Start(1)

\* 1. Check if klipper.service exists
Step1 ==
    /\ pc = "s1"
    /\ \E f \in ServiceFiles :
        /\ serviceFile' = f
        /\ IF f.st = Absent
           THEN Raise("s1", "FileNotFoundError", klipper_service_path)
           ELSE Advance("s1", "s2") /\ out' = out
    /\ UNCHANGED <<run, clock, envFile, logDir, locals, walk, disk, zips0, returncodes>>

\* 2. Read klipper.service content and extract EnvironmentFile
Step2 ==
    /\ pc = "s2"
    /\ LET environment_file_line ==
               SelectSeq(serviceFile.lines, LAMBDA l : l # <<>> /\ l[1] = "EnvironmentFile")
       IN IF environment_file_line = <<>>
          THEN Raise("s2", "ValueError", <<>>) /\ UNCHANGED environment_file_path
          ELSE LET parts == Split(environment_file_line[1], "=")
               IN IF Len(parts) < 2
                  THEN Raise("s2", "IndexError", <<>>) /\ UNCHANGED environment_file_path
                  ELSE /\ environment_file_path' = Strip(parts[2], Whitespace)
                       /\ Advance("s2", "s3") /\ out' = out
    /\ UNCHANGED <<run, clock, host, printer_cfg_path, log_file_path, base_path,
                   base_path_log, newest_log, walk, disk, zips0, returncodes>>

\* 3. Check if EnvironmentFile exists, on a host whose environment file is one of `files`
CheckEnvironmentFile(files) ==
    /\ pc = "s3"
    /\ \E f \in files :
        /\ envFile' = f
        /\ IF f.st = Absent
           THEN Raise("s3", "FileNotFoundError", environment_file_path)
           ELSE Advance("s3", "s4") /\ out' = out
    /\ UNCHANGED <<run, clock, serviceFile, logDir, locals, walk, disk, zips0, returncodes>>

Step3 == CheckEnvironmentFile(EnvFiles)

Step3AnyPath == CheckEnvironmentFile(AllEnvFiles)

\* 4. Read EnvironmentFile content and extract paths
Step4 ==
    /\ pc = "s4"
    /\ LET klipper_args_line == Strip(envFile.lines[1], Whitespace)
           parts == Split(klipper_args_line, "=")
       IN IF Len(parts) < 2
          THEN Raise("s4", "IndexError", <<>>) /\ UNCHANGED <<printer_cfg_path, log_file_path>>
          ELSE LET klipper_args == SplitWords(Strip(parts[2], {"\""}))
               IN IF Len(klipper_args) < 6
                  THEN Raise("s4", "IndexError", <<>>)
                       /\ UNCHANGED <<printer_cfg_path, log_file_path>>
                  ELSE /\ printer_cfg_path' = klipper_args[2]
                       /\ log_file_path' = klipper_args[6]
                       /\ Advance("s4", "s5") /\ out' = out
    /\ UNCHANGED <<run, clock, host, environment_file_path, base_path, base_path_log,
                   newest_log, walk, disk, zips0, returncodes>>

\* 5. Determine base_path for printer.cfg
Step5 ==
    /\ pc = "s5"
    /\ base_path' = derive(printer_cfg_path)
    /\ Advance("s5", "s6")
    /\ UNCHANGED <<run, clock, host, environment_file_path, printer_cfg_path, log_file_path,
                   base_path_log, newest_log, walk, disk, zips0, out, returncodes>>

\* 6. Determine base_path for log file
Step6 ==
    /\ pc = "s6"
    /\ base_path_log' = derive(log_file_path)
    /\ Advance("s6", "s7")
    /\ UNCHANGED <<run, clock, host, environment_file_path, printer_cfg_path, log_file_path,
                   base_path, newest_log, walk, disk, zips0, out, returncodes>>

\* 7. Prepare support directory
Step7 ==
    /\ pc = "s7"
    /\ scratch' = ensure_empty_dir(scratch)
    /\ Advance("s7", "logs")
    /\ UNCHANGED <<run, clock, host, locals, walk, zips, zips0, out, returncodes>>

\* Copy selective logs, on a host whose log directory is one of `dirs`
CopySelectiveLogs(dirs) ==
    /\ pc = "logs"
    /\ IF Contains(log_file_path, Marker)
       THEN \E d \in dirs :
              /\ logDir' = d
              /\ IF d.st = Absent
                 THEN \* os.path.exists is false for both files, os.listdir raises
                      /\ Raise("logs", "FileNotFoundError", dirname(log_file_path))
                      /\ UNCHANGED <<scratch, newest_log>>
                 ELSE \E newest \in get_newest_log(d.files) :
                      /\ newest_log' = newest
                      /\ scratch' = scratch
                            \cup {Staged(f) : f \in files_to_copy(d.files)}
                            \cup (IF newest # None THEN {Staged(newest)} ELSE {})
                      /\ out' = IF newest # None THEN out
                                ELSE Append(out, NoteMsg("logs", "No archived klippy log found."))
                      /\ Advance("logs", "config")
       ELSE \E exists \in BOOLEAN :
              /\ UNCHANGED <<logDir, newest_log>>
              /\ IF exists
                 THEN /\ scratch' = scratch \cup {Staged(KlippyLog)}
                      /\ Advance("logs", "config") /\ out' = out
                 ELSE /\ Raise("logs", "FileNotFoundError", log_file_path)
                      /\ UNCHANGED scratch
    /\ UNCHANGED <<run, clock, serviceFile, envFile, environment_file_path, printer_cfg_path,
                   log_file_path, base_path, base_path_log, walk, zips, zips0, returncodes>>

CopyLogs == CopySelectiveLogs(LogDirs)

CopyLogsAnyDir == CopySelectiveLogs(AllLogDirs)

\* Copy printer.cfg, on a host whose config directory is one of `dirs`
CopyPrinterCfg(dirs) ==
    /\ pc = "config"
    /\ IF Contains(printer_cfg_path, Marker)
       THEN \E d \in dirs :
              IF d.st = Absent
              THEN /\ Raise("config", "FileNotFoundError", dirname(printer_cfg_path))
                   /\ UNCHANGED scratch
              ELSE /\ scratch' = scratch \cup {Staged(<<"config", "/">> \o f) : f \in d.files}
                   /\ Advance("config", "osinfo") /\ out' = out
       ELSE \E exists \in BOOLEAN :
              IF exists
              THEN /\ scratch' = scratch \cup {Staged(PrinterCfg)}
                   /\ Advance("config", "osinfo") /\ out' = out
              ELSE /\ Raise("config", "FileNotFoundError", printer_cfg_path)
                   /\ UNCHANGED scratch
    /\ UNCHANGED <<run, clock, host, locals, walk, zips, zips0, returncodes>>

CopyConfig == CopyPrinterCfg(CfgDirs)

CopyConfigAnyDir == CopyPrinterCfg(AllCfgDirs)

OsInformation == <<"OS_Information.txt">>
NetworkInformation == <<"Network_Information.txt">>
DmesgTxt == <<"dmesg.txt">>

ReportNames == {OsInformation, NetworkInformation, DmesgTxt}

\* subprocess.run(argv, stdout=f, text=True): no check=True, so a non-zero
\* exit returns normally; a command that is not installed raises
\* FileNotFoundError from Popen
SubprocessRaises(outcome) == outcome = "missing"

\* Collect OS information, the commands ending in one of `outcomes`
CollectOsInfo(outcomes) ==
    /\ pc = "osinfo"
    /\ scratch' = scratch \cup {Staged(OsInformation)}
    /\ \E u \in outcomes, c \in outcomes :
         IF SubprocessRaises(u)
         THEN /\ returncodes' = [returncodes EXCEPT !["uname"] = u]
              /\ Raise("osinfo", "FileNotFoundError", <<"uname">>)
         ELSE IF SubprocessRaises(c)
         THEN /\ returncodes' = [returncodes EXCEPT !["uname"] = u, !["cat"] = c]
              /\ Raise("osinfo", "FileNotFoundError", <<"cat">>)
         ELSE /\ returncodes' = [returncodes EXCEPT !["uname"] = u, !["cat"] = c]
              /\ Advance("osinfo", "netinfo") /\ out' = out
    /\ UNCHANGED <<run, clock, host, locals, walk, zips, zips0>>

\* Collect network information
CollectNetInfo(outcomes) ==
    /\ pc = "netinfo"
    /\ scratch' = scratch \cup {Staged(NetworkInformation)}
    /\ \E i \in outcomes :
         /\ returncodes' = [returncodes EXCEPT !["ip"] = i]
         /\ IF SubprocessRaises(i)
            THEN Raise("netinfo", "FileNotFoundError", <<"ip">>)
            ELSE Advance("netinfo", "dmesg") /\ out' = out
    /\ UNCHANGED <<run, clock, host, locals, walk, zips, zips0>>

\* Collect dmesg information
CollectDmesg(outcomes) ==
    /\ pc = "dmesg"
    /\ scratch' = scratch \cup {Staged(DmesgTxt)}
    /\ \E d \in outcomes :
         /\ returncodes' = [returncodes EXCEPT !["sudo"] = d]
         /\ IF SubprocessRaises(d)
            THEN Raise("dmesg", "FileNotFoundError", <<"sudo">>)
            ELSE Advance("dmesg", "compress") /\ out' = out
    /\ UNCHANGED <<run, clock, host, locals, walk, zips, zips0>>

OsInfo == CollectOsInfo(Outcomes)
NetInfo == CollectNetInfo(Outcomes)
Dmesg == CollectDmesg(Outcomes)

OsInfoAnyOutcome == CollectOsInfo(AllOutcomes)
NetInfoAnyOutcome == CollectNetInfo(AllOutcomes)
DmesgAnyOutcome == CollectDmesg(AllOutcomes)

\* a set as a sequence, in the order the file system lists it
RECURSIVE SetToSeq(_)
SetToSeq(S) ==
    IF S = {} THEN <<>>
    ELSE LET x == CHOOSE x \in S : TRUE
         IN <<x>> \o SetToSeq(S \ {x})

\* os.walk(support_dir), top down: the files of the root, then those of config/
os_walk(files) ==
    SetToSeq({f \in files : ~Contains(f.name, "/")})
    \o SetToSeq({f \in files : Contains(f.name, "/")})

Put(path, archive) == (path :> archive) @@ zips

\* Compress the folder: ZipFile(zip_path, 'w') truncates what is there
Compress ==
    /\ pc = "compress"
    /\ zips' = Put(zip_path, [by |-> run, entries |-> <<>>])
    /\ walk' = os_walk(scratch)
    /\ Advance("compress", "zip")
    /\ UNCHANGED <<run, clock, host, locals, scratch, zips0, out, returncodes>>

\* one turn of the zip loop: zipf.write(abs_path, arcname_with_timestamp)
ZipWrite ==
    /\ pc = "zip"
    /\ walk # <<>>
    /\ LET file == Head(walk)
           entry == [name |-> arcname_with_timestamp(file.name, clock), src |-> file]
       IN zips' = Put(zip_path, [zips[zip_path] EXCEPT !.entries = Append(@, entry)])
    /\ walk' = Tail(walk)
    /\ UNCHANGED <<pc, run, clock, host, locals, scratch, zips0, out, ran, returncodes>>

\* the walk is exhausted and the with block closes the archive
ZipClose ==
    /\ pc = "zip"
    /\ walk = <<>>
    /\ Advance("zip", "final")
    /\ UNCHANGED <<run, clock, host, locals, walk, disk, zips0, out, returncodes>>

\* Final message: copy the archive to its destination and report it
Final ==
    /\ pc = "final"
    /\ LET dest == final_path(base_path, clock)
       IN \E copied \in BOOLEAN :
            IF copied
            THEN /\ zips' = Put(dest, zips[zip_path])
                 /\ out' = Append(out, CreatedMsg(dest))
                 /\ Advance("final", "done")
            ELSE /\ Raise("final", "FileNotFoundError", dest)
                 /\ UNCHANGED zips
    /\ UNCHANGED <<run, clock, host, locals, walk, scratch, zips0, returncodes>>

\* a second passes while the run is at one of `places`, at most `ticks` in
\* all.  The script reads the clock only in the zip loop and in the final
\* step, so time that passes elsewhere is time that has passed when it gets
\* there.
Second(ticks, places) ==
    /\ pc \in places
    /\ clock < StartClock + ticks
    /\ clock' = clock + 1
    /\ UNCHANGED <<pc, run, host, locals, walk, disk, zips0, out, ran, returncodes>>

\* over several runs: the clock advances between the zip loop and the final copy
Tick == Second(MaxTicks, {"final"})

\* in one run: the clock advances between any two archive entries as well
TickPack == Second(MaxPackTicks, {"zip", "final"})

\* the whole pipeline, run MaxRuns times on a host that may change between runs
Next ==
    \/ StartRun
    \/ Step1
    \/ Step2
    \/ Step3
    \/ Step4
    \/ Step5
    \/ Step6
    \/ Step7
    \/ CopyLogs
    \/ CopyConfig
    \/ OsInfo
    \/ NetInfo
    \/ Dmesg
    \/ Compress
    \/ ZipWrite
    \/ ZipClose
    \/ Final
    \/ Tick

Spec == Init /\ [][Next]_vars

\* one run up to the base paths, over every configured path
NextDerive ==
    \/ StartOnce
    \/ Step1
    \/ Step2
    \/ Step3AnyPath
    \/ Step4
    \/ Step5
    \/ Step6

SpecDerive == Init /\ [][NextDerive]_vars

\* one run up to the staged logs, over every log directory
NextLogs ==
    \/ StartOnce
    \/ Step1
    \/ Step2
    \/ Step3
    \/ Step4
    \/ Step5
    \/ Step6
    \/ Step7
    \/ CopyLogsAnyDir

SpecLogs == Init /\ [][NextLogs]_vars

\* one run, over every outcome of every external command
NextReports ==
    \/ StartOnce
    \/ Step1
    \/ Step2
    \/ Step3
    \/ Step4
    \/ Step5
    \/ Step6
    \/ Step7
    \/ CopyLogs
    \/ CopyConfig
    \/ OsInfoAnyOutcome
    \/ NetInfoAnyOutcome
    \/ DmesgAnyOutcome
    \/ Compress
    \/ ZipWrite
    \/ ZipClose
    \/ Final
    \/ Tick

SpecReports == Init /\ [][NextReports]_vars

\* one run, over every config directory and with the clock free to advance
\* between any two archive entries
NextPack ==
    \/ StartOnce
    \/ Step1
    \/ Step2
    \/ Step3
    \/ Step4
    \/ Step5
    \/ Step6
    \/ Step7
    \/ CopyLogs
    \/ CopyConfigAnyDir
    \/ OsInfo
    \/ NetInfo
    \/ Dmesg
    \/ Compress
    \/ ZipWrite
    \/ ZipClose
    \/ Final
    \/ TickPack

SpecPack == Init /\ [][NextPack]_vars

----------------------------------------------------------------------------
(* Properties *)

FailMsgs == SelectSeq(out, LAMBDA m : m.kind = "FAIL")
CreatedMsgs == SelectSeq(out, LAMBDA m : m.kind = "CREATED")
Succeeded == pc = "done" /\ out # <<>> /\ out[Len(out)].kind = "CREATED"
StepsUpTo(st) == {StepOrder[j] : j \in 1..StepIndex(st)}
Stale == {f \in scratch : f.run # run}
ArchivePaths == DOMAIN zips

\* C1: when a step of the Locator or of the Collector raises, the run
\* aborts at that step: no later step has run, the archives on disk are
\* those of the start of the run (nothing was written at /tmp/klipper_support.zip
\* or at a final destination), one failure message and no success message
\* was printed, and main() has returned.
C1_AbortsAtFailingStep ==
    \A i \in 1..Len(out) :
        (out[i].kind = "FAIL" /\ out[i].at \in LocatorSteps \cup CollectorSteps)
        => /\ pc = "done"
           /\ ran \subseteq StepsUpTo(out[i].at)
           /\ zips = zips0
           /\ Len(FailMsgs) = 1
           /\ Len(CreatedMsgs) = 0

\* a second run whose config copy failed, after a run that left archives
C1_Witness ==
    /\ pc = "done"
    /\ run = 2
    /\ zips0 # <<>>
    /\ Len(out) = 1
    /\ out[1].kind = "FAIL"
    /\ out[1].at = "config"

\* C2 as stated: a run that finds the service file or the environment file
\* missing ends with a failure message that mentions the path, and when it
\* has ended there is no archive on disk, neither at the fixed temporary
\* path nor at a final destination.
C2_NoArchiveLeftBehind ==
    (pc = "done" /\ (serviceFile.st = Absent \/ envFile.st = Absent))
    => /\ Len(FailMsgs) = 1
       /\ FailMsgs[1].path = (IF serviceFile.st = Absent THEN klipper_service_path ELSE EnvPath)
       /\ ArchivePaths = {}

\* C2 as amended: such a run ends with one failure message that mentions the
\* missing path, and it has written no archive: the archives on disk are
\* exactly those that were there when the run started.
C2_NoArchiveWritten ==
    (pc = "done" /\ (serviceFile.st = Absent \/ envFile.st = Absent))
    => /\ out = FailMsgs
       /\ Len(FailMsgs) = 1
       /\ FailMsgs[1].path = (IF serviceFile.st = Absent THEN klipper_service_path ELSE EnvPath)
       /\ FailMsgs[1].path # <<>>
       /\ zips = zips0

\* a second run that finds the service file missing while the archive of the
\* first run is still at the fixed temporary path
C2_Witness ==
    /\ pc = "done"
    /\ run = 2
    /\ serviceFile.st = Absent
    /\ zip_path \in ArchivePaths

\* C3 as stated: once a run has executed its first step, no file staged by an
\* earlier run is in the scratch directory, during or after the run.
C3_WipedAtStart == (ran # {}) => Stale = {}

\* C3 as amended: the scratch directory is wiped at step 7.  Once a run has
\* executed step 7, no file staged by an earlier run is in the scratch
\* directory, and every entry of every archive is a file staged by the run
\* that wrote the archive.
C3_WipedAtStep7 ==
    /\ ("s7" \in ran) => Stale = {}
    /\ \A p \in ArchivePaths :
         \A i \in 1..Len(zips[p].entries) : zips[p].entries[i].src.run = zips[p].by

\* a second run that has written its archive, after a first run that had
\* staged files and archived them
C3_Witness ==
    /\ run = 2
    /\ Succeeded
    /\ zip_path \in DOMAIN zips0
    /\ zips0[zip_path].entries # <<>>
    /\ zips[zip_path].by = 2
    /\ scratch # {}

\* C4: whatever the external commands do, exit non-zero or be missing, no
\* report step fails the run, and a run that got to the reports has staged the
\* three report files and gone on to the Packager.
C4_ReportsBestEffort ==
    /\ \A i \in 1..Len(out) :
         out[i].kind = "FAIL" => out[i].at \notin {"osinfo", "netinfo", "dmesg"}
    /\ (pc = "done" /\ "osinfo" \in ran)
       => (ReportNames \subseteq Names(scratch) /\ "compress" \in ran)

\* the part of C4 the code keeps: commands that exit non-zero, all of them
\* installed, do not fail the run
C4_NonZeroExitTolerated ==
    (pc = "done" /\ "osinfo" \in ran /\ \A c \in Commands : returncodes[c] # "missing")
    => /\ \A c \in Commands : returncodes[c] \in {"ok", "nonzero"}
       /\ ReportNames \subseteq Names(scratch)
       /\ "compress" \in ran

\* the rotation pattern klippy.log.<YYYY-MM-DD>
IsKlippyRotation(f) ==
    /\ Len(f) = 12
    /\ f[1] = "klippy" /\ f[2] = ".log."
    /\ IsDateText(SubSeq(f, 3, 12))

\* the date suffix of a name, as a number that orders as dates do
DateSuffix(f) ==
    LET d == SubSeq(f, Len(f) - 9, Len(f))
    IN ToInt(SubSeq(d, 1, 4)) * 10000 + ToInt(SubSeq(d, 6, 7)) * 100 + ToInt(SubSeq(d, 9, 10))

StagedRotations == {f \in Names(scratch) : MatchesRotation(f)}

\* C5: get_newest_log returns a file whose date suffix is the most recent
\* among the files of the listing that match klippy.log.<YYYY-MM-DD>, it
\* returns None only when no file matches, and the Collector stages that one
\* rotated file and no other.
C5_NewestRotation ==
    (pc = "config" /\ logDir.st = Present)
    => LET matching == {f \in logDir.files : IsKlippyRotation(f)}
       IN /\ newest_log = None <=> matching = {}
          /\ newest_log # None =>
                /\ newest_log \in matching
                /\ \A g \in matching : DateSuffix(g) <= DateSuffix(newest_log)
          /\ StagedRotations = (IF matching = {} THEN {} ELSE {newest_log})

\* the files of a listing that pass the filter of get_newest_log
PassFilter(listing) == {f \in listing : StartsWithKlippyLog(f) /\ MatchesRotation(f)}

HasNote == \E i \in 1..Len(out) : out[i].kind = "NOTE" /\ out[i].at = "logs"

\* C6: with the log path under the managed root and its directory there, the
\* log step does not fail; klippy.log is staged exactly when the directory
\* holds it and moonraker.log exactly when the directory holds it; and when
\* no file passes the rotation filter, the note that no archived log was
\* found is printed and the run is at the config step.
C6_LogsIndependent ==
    ("logs" \in ran /\ Contains(log_file_path, Marker) /\ logDir.st = Present)
    => /\ FailMsgs = <<>>
       /\ pc = "config"
       /\ Staged(KlippyLog) \in scratch <=> KlippyLog \in logDir.files
       /\ Staged(MoonrakerLog) \in scratch <=> MoonrakerLog \in logDir.files
       /\ PassFilter(logDir.files) = {} => (HasNote /\ StagedRotations = {})

\* moonraker.log staged from a directory that holds neither klippy.log nor a rotation
C6_Witness ==
    /\ pc = "config"
    /\ logDir.st = Present
    /\ KlippyLog \notin logDir.files
    /\ MoonrakerLog \in logDir.files
    /\ Staged(MoonrakerLog) \in scratch
    /\ Staged(KlippyLog) \notin scratch
    /\ HasNote

\* C7: a run that ended with the success message has copied the archive to
\* <base_path>logs/klipper_support_<timestamp>.zip when the config base path is
\* under the managed root and to /tmp/klipper_support_<timestamp>.zip
\* otherwise, has reported that path, and the archive at
\* /tmp/klipper_support.zip is still there with the same content as the copy.
C7_FinalPlacement ==
    Succeeded
    => LET dest == out[Len(out)].path
           name == <<"klipper_support_">> \o strftime(clock) \o <<".zip">>
       IN /\ Len(CreatedMsgs) = 1
          /\ FailMsgs = <<>>
          /\ dest = (IF Contains(printer_cfg_path, Marker)
                     THEN Split(printer_cfg_path, Marker)[1] \o <<Marker, "/", "logs", "/">> \o name
                     ELSE <<"/", "tmp", "/">> \o name)
          /\ dest \in ArchivePaths
          /\ zip_path \in ArchivePaths
          /\ dest # zip_path
          /\ zips[dest] = zips[zip_path]
          /\ zips[zip_path].by = run
          /\ zips[zip_path].entries # <<>>

\* a successful run whose config lies under the managed root
C7_Witness ==
    /\ Succeeded
    /\ Contains(printer_cfg_path, Marker)
    /\ Contains(out[Len(out)].path, "logs")

\* C8: a run that succeeds after an earlier run did never writes its final
\* archive over a final archive that was already there, so the final paths
\* of two successful runs differ and both archives exist afterwards.
C8_DistinctFinalPaths ==
    Succeeded => out[Len(out)].path \notin DOMAIN zips0

\* C9: the base-path derivation is idempotent, for the config path and for
\* the log path: deriving again from a derived base path gives the same path.
C9_DeriveIdempotent ==
    /\ ("s5" \in ran) =>
          /\ base_path = derive(printer_cfg_path)
          /\ derive(base_path) = base_path
    /\ ("s6" \in ran) =>
          /\ base_path_log = derive(log_file_path)
          /\ derive(base_path_log) = base_path_log

Occurrences(p, tok) == Cardinality({i \in 1..Len(p) : p[i] = tok})

\* a config path that holds the marker twice and is not its own base path
C9_Witness ==
    /\ "s6" \in ran
    /\ Occurrences(printer_cfg_path, Marker) = 2
    /\ base_path # printer_cfg_path
    /\ Occurrences(base_path, Marker) = 1
    /\ ~Contains(log_file_path, Marker)

Entries == IF zip_path \in ArchivePaths THEN zips[zip_path].entries ELSE <<>>

\* the text after the last "_" of a name but one: where a timestamp would be
Suffix(name) == SubSeq(name, Len(name) - 14, Len(name))

\* C10: the entry names of the archive being written are pairwise distinct,
\* and once the zip loop is over the archive holds exactly one entry for
\* each file of the scratch directory.
C10_EntriesDistinct ==
    /\ \A i, j \in 1..Len(Entries) : Entries[i].name = Entries[j].name => i = j
    /\ ("zip" \in ran) =>
          /\ Len(Entries) = Cardinality(scratch)
          /\ \A f \in scratch : \E i \in 1..Len(Entries) : Entries[i].src = f

\* an archive written across a second boundary, of a scratch directory that
\* holds both a file and a file named as that file's entry could be
C10_Witness ==
    /\ "zip" \in ran
    /\ \E i, j \in 1..Len(Entries) : Suffix(Entries[i].name) # Suffix(Entries[j].name)
    /\ \E f, g \in scratch :
          /\ f # g
          /\ \E c \in StartClock..(StartClock + MaxPackTicks) :
                g.name = arcname_with_timestamp(f.name, c)
                /\ \E i \in 1..Len(Entries) :
                      Entries[i].src = f /\ Suffix(Entries[i].name) = strftime(c)

====
